---- MODULE Spec2Model ----
(***************************************************************************)
(* Model of ApiExtension (mind-agents API server): the HTTP /action route  *)
(* with its bearer-token middleware and executeAction, and the WebSocket   *)
(* connection registry with its per-connection message handlers.           *)
(*                                                                         *)
(* Strings the code inspects character by character (the Authorization     *)
(* header) are sequences of one-character strings.                         *)
(***************************************************************************)
EXTENDS Integers, Sequences, FiniteSets, TLC

\* ------------------------------------------------------------------------
\* Bounds of the model
\* ------------------------------------------------------------------------
\* HTTP requests over the lifetime of a run
MaxReqs == 2

\* WebSocket connections over the lifetime of a run
MaxConns == 2
\* Distinct values generateConnectionId can return
MaxIds == 2
\* Chat frames suspended on the portal at the same time
MaxFrames == 2

\* apiConfig.rateLimit.maxRequests and apiConfig.rateLimit.windowMs, scaled
RateMax == 2
RateWindow == 3
\* Client keys (remote addresses) the limiter sees
MaxKeys == 2
\* The clock stops here
MaxTime == 5
\* Calls a client makes within one window
MaxHits == 4

None == "none"

Reqs == 1..MaxReqs
Conns == 1..MaxConns
Ids == 1..MaxIds
Frames == 1..MaxFrames
Keys == 1..MaxKeys

\* ------------------------------------------------------------------------
\* Configuration and collaborators
\* ------------------------------------------------------------------------
\* apiConfig.auth.secret, as characters
Secret == <<"s">>

\* 'Bearer ', the prefix authMiddleware looks for
BearerPrefix == <<"B", "e", "a", "r", "e", "r", " ">>

\* Authorization headers a client may send; NoHeader is an absent header
NoHeader == <<"<absent>">>
Headers ==
    { NoHeader,
      BearerPrefix \o <<"s">>,                          \* Bearer s (the secret)
      BearerPrefix \o <<"x">>,                          \* Bearer x
      BearerPrefix,                                     \* Bearer + empty token
      <<"b", "e", "a", "r", "e", "r", " ", "s">> }      \* bearer s

VARIABLE
    toolsToString   \* the agent's tools extension has an action of its own
                    \* under the name toString

\* agent.extensions, in list order: the own keys of each extension's actions
Extensions ==
    << [id |-> "api", actions |-> {}],
       [id |-> "telegram", actions |-> {"echo", "wait"}],
       [id |-> "tools",
        actions |-> IF toolsToString THEN {"echo", "toString"}
                    ELSE {"echo"}] >>

\* Keys every actions object (an object literal) inherits from
\* Object.prototype: actions[key] is truthy but is no ExtensionAction
InheritedKeys == {"toString"}

\* request.action values a client may send
ActionNames == {"echo", "wait", "nope", "toString"}

\* request.action values that are not strings: undefined, as in the body
\* {}, and the array ["echo"]
Undefined == "<undefined>"
ArrayOfEcho == "<[echo]>"
NonStrings == {Undefined, ArrayOfEcho}

\* The string a value becomes as a property key and in a template literal
ToPropertyKey(v) ==
    IF v = Undefined THEN "undefined"
    ELSE IF v = ArrayOfEcho THEN "echo"
    ELSE v

\* Handlers whose promise never settles
NeverSettles == {"wait"}

\* Error messages are sequences: the text, then what is spliced into it
NoError == <<>>
Msg(text) == <<text>>

\* What a handler's execute() may do once it settles: the ActionResult it
\* resolves to, or the Error it rejects with (error is err.message)
HandlerOutcomes ==
    { [t |-> "return", success |-> TRUE,  result |-> "hi",       error |-> NoError],
      [t |-> "return", success |-> TRUE,  result |-> "circular", error |-> NoError],
      [t |-> "return", success |-> FALSE, result |-> None,       error |-> Msg("bad")],
      [t |-> "throw",  success |-> FALSE, result |-> None,       error |-> Msg("boom")] }

\* No handler has settled yet
NoOutcome == [t |-> None, success |-> FALSE, result |-> None, error |-> NoError]

\* Values JSON.stringify throws on
Unserialisable == {"circular"}

\* message.type of a parsed frame: the two types handleWebSocketMessage has
\* a case for, two it has none for, and "garbage", a frame JSON.parse
\* throws on
FrameTypes == {"ping", "chat", "command", "other", "garbage"}

\* What portal.generateChat may do once it settles
ChatOutcomes == {"resolve", "reject"}

VARIABLES
    agentInit,      \* this.agent is set
    agentPortal,    \* the agent handed to init() has a portal
    authEnabled,    \* apiConfig.auth.enabled, read once by setupMiddleware
    reqPc,          \* per request: "idle", "awaiting", "reply", "done"; on
                    \* the chat and memory routes "awaiting chat",
                    \* "awaiting retrieve", "awaiting store"
    reqHdr,         \* per request: its Authorization header
    reqAction,      \* per request: request.action
    reqHandler,     \* per request: <<extension index, name>> being awaited
    reqOutcome,     \* per request: what the awaited handler settled with
    reqResult,      \* per request: the ActionResponse executeAction resolved to
    reqStart,       \* per request: start, while executeAction awaits a handler
    reqElapsed,     \* per request: executionTime of the ActionResponse
    responses,      \* per request: the responses written on res, in order
    invoked,        \* per request: the handlers whose execute() was called,
                    \* and the portal and memory calls, as <<0, name>>
    connState,      \* per socket: "new", "open", "closing" (errored), "closed"
    connId,         \* per socket: the connectionId its handlers closed over
    connHdr,        \* per socket: the Authorization header of its upgrade
                    \* request
    connections,    \* this.connections: id -> socket, 0 when the id is absent
    frPc,           \* per slot: "free", or "waiting" for a chat frame
                    \* suspended on generateChat; the suspended frames fill
                    \* the first slots in their order of arrival
    frConn,         \* per slot: the socket the frame arrived on
    frWs,           \* per slot: the socket handleWebSocketMessage looked up
    sent,           \* the ws.send calls made by the step just taken, in order
    handled,        \* the frame whose handling ended in the step just taken:
                    \* the socket it arrived on, its type, and how many
                    \* frames that arrived on that socket before it were
                    \* still suspended
    deleted,        \* what connections.delete returned in the step just
                    \* taken: "true", "false", or "none" when it was not called
    sendThrows,     \* the ws build throws on send to a socket that is not open
    faults,         \* 1 once a listener's promise was rejected with no handler
    now,            \* Date.now()
    rlCount,        \* per client key: the hits counted in its window
    rlReset,        \* per client key: when its window ends, 0 with no window
    rlVerdict,      \* what the limiter did in the step just taken
    extStatus,      \* this.status: "DISABLED", "ENABLED", "ERROR"
    server,         \* this.server: "none", or the http server "created",
                    \* "listening", "failed" (its listen failed), "closing"
                    \* (close() was called on it), "closed"
    stopPending,    \* a promise returned by stop() has not resolved yet
    wssTerminates   \* the ws build's WebSocketServer.close() terminates the
                    \* clients that are connected

agentVars == <<agentInit, agentPortal, toolsToString>>
reqVars == <<authEnabled, reqPc, reqHdr, reqAction, reqHandler, reqStart,
             reqElapsed,
             reqOutcome, reqResult, responses, invoked>>
httpVars == <<agentInit, agentPortal, toolsToString, authEnabled, reqPc,
              reqHdr, reqAction,
              reqStart, reqElapsed,
              reqHandler, reqOutcome, reqResult, responses, invoked>>
rateVars == <<now, rlCount, rlReset, rlVerdict>>
lifeVars == <<extStatus, server, stopPending, wssTerminates>>
wsVars == <<connState, connId, connHdr, connections, frPc, frConn, frWs,
            sent, handled, deleted, sendThrows, faults>>

NoHandler == <<0, None>>
NoResult == [success |-> FALSE, result |-> None, error |-> NoError, set |-> FALSE]

\* ------------------------------------------------------------------------
\* Pure helpers
\* ------------------------------------------------------------------------
StartsWith(s, prefix) ==
    /\ Len(s) >= Len(prefix)
    /\ SubSeq(s, 1, Len(prefix)) = prefix

\* String.prototype.substring(n): the characters from index n (0-based) on
Substring(s, n) == SubSeq(s, n + 1, Len(s))

\* What a middleware does with a request: answers it, or calls next()
CallNext == [status |-> 0, error |-> NoError]
Answer(status, text) == [status |-> status, error |-> Msg(text)]

\* authMiddleware without the comparison of the token
AuthMiddlewarePrefixOnly(hdr) ==
    IF hdr = NoHeader \/ ~StartsWith(hdr, BearerPrefix)
    THEN Answer(401, "Unauthorized")
    ELSE CallNext

\* authMiddleware
AuthMiddleware(hdr) ==
    IF hdr = NoHeader \/ ~StartsWith(hdr, BearerPrefix)
    THEN Answer(401, "Unauthorized")
    ELSE IF Substring(hdr, 7) # Secret
    THEN Answer(401, "Invalid token")
    ELSE CallNext

\* setupMiddleware: the auth middleware is installed only when auth is enabled
Admit(hdr) == IF authEnabled THEN AuthMiddleware(hdr) ELSE CallNext

\* ext.actions[name] is truthy
Truthy(ext, name) == name \in ext.actions \/ name \in InheritedKeys

\* The first extension, in list order, whose actions[name] is truthy; 0 if none
FirstMatch(name) ==
    IF \E i \in 1..Len(Extensions) : Truthy(Extensions[i], name)
    THEN CHOOSE i \in 1..Len(Extensions) :
            /\ Truthy(Extensions[i], name)
            /\ \A j \in 1..(i - 1) : ~Truthy(Extensions[j], name)
    ELSE 0

Result(success, result, error) ==
    [success |-> success, result |-> result, error |-> error, set |-> TRUE]

NotInitialized == Result(FALSE, None, Msg("Agent not initialized"))
NotFound(name) == Result(FALSE, None, <<"Action '' not found", name>>)
NotAFunction == Result(FALSE, None, Msg("action.execute is not a function"))

\* executionTime: Date.now() - start
Elapsed(start) == now - start

\* executeAction with a catch block that loses the error
FromOutcomeLosesError(o) ==
    IF o.t = "return" THEN Result(o.success, o.result, o.error)
    ELSE Result(TRUE, None, NoError)

\* executeAction that copies success and error but not result
FromOutcomeDropsResult(o) ==
    IF o.t = "return" THEN Result(o.success, None, o.error)
    ELSE Result(FALSE, None, o.error)

\* The ActionResponse built from a settled handler
FromOutcome(o) ==
    IF o.t = "return" THEN Result(o.success, o.result, o.error)
    ELSE Result(FALSE, None, o.error)

\* Response bodies
ResultBody(status, r) ==
    [status |-> status, t |-> "result", success |-> r.success,
     result |-> r.result, error |-> r.error]
ErrorBody(status, text) ==
    [status |-> status, t |-> "error", success |-> FALSE,
     result |-> None, error |-> Msg(text)]

\* ------------------------------------------------------------------------
\* Initial state
\* ------------------------------------------------------------------------
NoFrame == [conn |-> 0, typ |-> None, ahead |-> 0]

WsIdle ==
    /\ connState = [c \in Conns |-> "new"]
    /\ connId = [c \in Conns |-> 0]
    /\ connHdr = [c \in Conns |-> NoHeader]
    /\ connections = [i \in Ids |-> 0]
    /\ frPc = [f \in Frames |-> "free"]
    /\ frConn = [f \in Frames |-> 0]
    /\ frWs = [f \in Frames |-> 0]
    /\ sent = <<>>
    /\ handled = NoFrame
    /\ deleted = "none"
    /\ faults = 0

NoVerdict == [key |-> 0, answer |-> CallNext, before |-> 0]

\* The extension as constructed: start() has not been called
LifeIdle ==
    /\ extStatus = "DISABLED"
    /\ server = "none"
    /\ stopPending = FALSE

\* start() and stop() are never called
NoLife ==
    /\ wssTerminates = FALSE
    /\ LifeIdle

RateIdle ==
    /\ now = 0
    /\ rlCount = [k \in Keys |-> 0]
    /\ rlReset = [k \in Keys |-> 0]
    /\ rlVerdict = NoVerdict

HttpIdle ==
    /\ reqPc = [r \in Reqs |-> "idle"]
    /\ reqHdr = [r \in Reqs |-> NoHeader]
    /\ reqAction = [r \in Reqs |-> None]
    /\ reqHandler = [r \in Reqs |-> NoHandler]
    /\ reqOutcome = [r \in Reqs |-> NoOutcome]
    /\ reqResult = [r \in Reqs |-> NoResult]
    /\ reqStart = [r \in Reqs |-> 0]
    /\ reqElapsed = [r \in Reqs |-> 0]
    /\ responses = [r \in Reqs |-> <<>>]
    /\ invoked = [r \in Reqs |-> <<>>]

HttpInit ==
    /\ agentInit = FALSE
    /\ agentPortal = FALSE
    /\ toolsToString = FALSE
    /\ sendThrows = FALSE
    /\ WsIdle
    /\ authEnabled \in BOOLEAN
    /\ HttpIdle
    /\ RateIdle
    /\ NoLife

WsInit ==
    /\ agentInit = FALSE
    /\ agentPortal \in BOOLEAN
    /\ toolsToString = FALSE
    /\ sendThrows \in BOOLEAN
    /\ authEnabled = FALSE
    /\ HttpIdle
    /\ WsIdle
    /\ RateIdle
    /\ NoLife

\* ------------------------------------------------------------------------
\* Actions
\* ------------------------------------------------------------------------
\* init(agent)
InitAgent ==
    /\ ~agentInit
    /\ agentInit' = TRUE
    /\ sent' = <<>>
    /\ handled' = NoFrame
    /\ deleted' = "none"
    /\ UNCHANGED <<agentPortal, toolsToString, reqVars, rateVars, lifeVars,
                   connState, connId, connHdr,
                   connections,
                   frPc, frConn, frWs, sendThrows, faults>>

\* executeAction up to its first suspension: the result it resolves to at
\* once, or the handler it calls and awaits
ExecuteActionStart(r, name) ==
    IF ~agentInit
    THEN /\ reqResult' = [reqResult EXCEPT ![r] = NotInitialized]
         /\ reqElapsed' = [reqElapsed EXCEPT ![r] = 0]
         /\ reqPc' = [reqPc EXCEPT ![r] = "reply"]
         /\ UNCHANGED <<reqHandler, invoked, reqStart>>
    ELSE LET key == ToPropertyKey(name)
             i == FirstMatch(key) IN
         IF i = 0
         THEN /\ reqResult' = [reqResult EXCEPT ![r] = NotFound(key)]
              /\ reqElapsed' = [reqElapsed EXCEPT ![r] = Elapsed(now)]
              /\ reqPc' = [reqPc EXCEPT ![r] = "reply"]
              /\ UNCHANGED <<reqHandler, invoked, reqStart>>
         ELSE IF key \notin Extensions[i].actions
         THEN \* inherited key: calling action.execute throws a TypeError
              \* inside the try block
              /\ reqResult' = [reqResult EXCEPT ![r] = NotAFunction]
              /\ reqElapsed' = [reqElapsed EXCEPT ![r] = Elapsed(now)]
              /\ reqPc' = [reqPc EXCEPT ![r] = "reply"]
              /\ UNCHANGED <<reqHandler, invoked, reqStart>>
         ELSE /\ reqHandler' = [reqHandler EXCEPT ![r] = <<i, key>>]
              /\ invoked' = [invoked EXCEPT ![r] = Append(@, <<i, key>>)]
              /\ reqStart' = [reqStart EXCEPT ![r] = now]
              /\ reqPc' = [reqPc EXCEPT ![r] = "awaiting"]
              /\ UNCHANGED <<reqResult, reqElapsed>>

\* POST /action arrives: the middleware chain, then the route handler.
\* Requests are numbered in their order of arrival.
PostAction(r, hdr, name) ==
    /\ reqPc[r] = "idle"
    /\ \A q \in 1..(r - 1) : reqPc[q] # "idle"
    /\ reqHdr' = [reqHdr EXCEPT ![r] = hdr]
    /\ reqAction' = [reqAction EXCEPT ![r] = name]
    /\ IF Admit(hdr) # CallNext
       THEN /\ responses' = [responses EXCEPT ![r] =
                   Append(@, [status |-> Admit(hdr).status, t |-> "error",
                              success |-> FALSE, result |-> None,
                              error |-> Admit(hdr).error])]
            /\ reqPc' = [reqPc EXCEPT ![r] = "done"]
            /\ UNCHANGED <<reqHandler, reqResult, invoked, reqStart,
                           reqElapsed>>
       ELSE /\ ExecuteActionStart(r, name)
            /\ UNCHANGED responses
    /\ UNCHANGED <<agentVars, authEnabled, reqOutcome, wsVars, rateVars, lifeVars>>

\* The awaited action.execute(...) settles
HandlerSettles(r, o) ==
    /\ reqPc[r] = "awaiting"
    /\ reqHandler[r][2] \notin NeverSettles
    /\ reqOutcome' = [reqOutcome EXCEPT ![r] = o]
    /\ reqResult' = [reqResult EXCEPT ![r] = FromOutcome(o)]
    /\ reqElapsed' = [reqElapsed EXCEPT ![r] = Elapsed(reqStart[r])]
    /\ reqStart' = [reqStart EXCEPT ![r] = 0]
    /\ reqPc' = [reqPc EXCEPT ![r] = "reply"]
    /\ UNCHANGED <<agentVars, authEnabled, reqHdr, reqAction, reqHandler,
                   responses, invoked, wsVars, rateVars, lifeVars>>

\* The route handler writing the result and then the 500 of its catch block
ReplyTwice(r) ==
    /\ reqPc[r] = "reply"
    /\ responses' = [responses EXCEPT ![r] =
          IF reqResult[r].result \in Unserialisable
          THEN @ \o <<ResultBody(200, reqResult[r]),
                      ErrorBody(500, "Failed to execute action")>>
          ELSE Append(@, ResultBody(200, reqResult[r]))]
    /\ reqPc' = [reqPc EXCEPT ![r] = "done"]
    /\ UNCHANGED <<agentVars, authEnabled, reqHdr, reqAction, reqHandler,
                   reqOutcome, reqResult, reqStart, reqElapsed, invoked,
                   wsVars, rateVars, lifeVars>>

\* The route handler resumes with executeAction's result: res.json(result),
\* and res.status(500).json(...) when that throws
Reply(r) ==
    /\ reqPc[r] = "reply"
    /\ responses' = [responses EXCEPT ![r] =
          IF reqResult[r].result \in Unserialisable
          THEN Append(@, ErrorBody(500, "Failed to execute action"))
          ELSE Append(@, ResultBody(200, reqResult[r]))]
    /\ reqPc' = [reqPc EXCEPT ![r] = "done"]
    /\ UNCHANGED <<agentVars, authEnabled, reqHdr, reqAction, reqHandler,
                   reqOutcome, reqResult, reqStart, reqElapsed, invoked,
                   wsVars, rateVars, lifeVars>>

HttpNext ==
    \/ InitAgent
    \/ \E r \in Reqs, hdr \in Headers, name \in ActionNames :
            PostAction(r, hdr, name)
    \/ \E r \in Reqs, o \in HandlerOutcomes : HandlerSettles(r, o)
    \/ \E r \in Reqs : Reply(r)

\* ------------------------------------------------------------------------
\* Properties of the request transport
\* ------------------------------------------------------------------------
\* Some extension defines name as an own key of its actions
Registered(name) == \E i \in 1..Len(Extensions) : name \in Extensions[i].actions

\* The request got past the middleware chain into the /action route handler
Dispatched(r) == reqResult[r].set \/ reqPc[r] = "awaiting"

\* A step of request r
ReqStep(r) == (\E o \in HandlerOutcomes : HandlerSettles(r, o)) \/ Reply(r)

\* C1: a request dispatched through executeAction gets exactly one outcome
\* and exactly one response. No response is written before the outcome is
\* known; once it is known the reply step is enabled; at the end exactly one
\* response has been written, the result itself or the 500 of the route's
\* catch block, whatever the handler did and with or without an agent.
C1_ExactlyOneResponse ==
    \A r \in Reqs :
        /\ Len(responses[r]) <= 1
        /\ reqPc[r] \in {"idle", "awaiting"} =>
                responses[r] = <<>> /\ ~reqResult[r].set
        /\ reqPc[r] = "reply" =>
                reqResult[r].set /\ responses[r] = <<>> /\ ENABLED Reply(r)
        /\ (reqPc[r] = "done" /\ Dispatched(r)) =>
                /\ Len(responses[r]) = 1
                /\ responses[r][1] \in
                      { ResultBody(200, reqResult[r]),
                        ErrorBody(500, "Failed to execute action") }

C1_Witness ==
    /\ reqPc[1] = "done" /\ reqResult[1] = NotInitialized
    /\ Len(responses[1]) = 1
    /\ reqPc[2] = "done" /\ reqOutcome[2].t = "throw"
    /\ Len(responses[2]) = 1

\* C2: when the handler throws or returns a non-success ActionResult, the
\* ActionResponse has success = false and carries the handler's error
\* message, it is sent as an ordinary result (the route's catch block is
\* not reached), and the next request can still be received.
C2_HandlerFailureContained ==
    \A r \in Reqs :
        (reqOutcome[r].t = "throw"
            \/ (reqOutcome[r].t = "return" /\ ~reqOutcome[r].success)) =>
            /\ reqResult[r].set
            /\ ~reqResult[r].success
            /\ reqResult[r].error = reqOutcome[r].error
            /\ reqPc[r] = "done" =>
                    responses[r] = <<ResultBody(200, reqResult[r])>>
            /\ \A q \in Reqs :
                    (reqPc[q] = "idle" /\ \A p \in 1..(q - 1) : reqPc[p] # "idle")
                        => ENABLED (\E hdr \in Headers, name \in ActionNames :
                                        PostAction(q, hdr, name))

C2_Witness ==
    /\ reqPc[1] = "done" /\ reqOutcome[1].t = "throw"
    /\ reqResult[1].error = Msg("boom")
    /\ reqPc[2] = "done" /\ reqOutcome[2].t = "return"
    /\ reqOutcome[2].success
    /\ responses[2] = <<ResultBody(200, reqResult[2])>>

\* C3: with the agent initialised, a dispatch whose name no extension
\* registers resolves to the not-found failure, and no handler is invoked
C3_UnregisteredIsNotFound ==
    \A r \in Reqs :
        (reqResult[r].set /\ reqResult[r] # NotInitialized
            /\ ~Registered(reqAction[r])) =>
            /\ reqResult[r] = NotFound(reqAction[r])
            /\ invoked[r] = <<>>

\* C4: a dispatch whose handler never settles can still take a step (a
\* timeout that resolves it)
C4_HangingHandlerTimesOut ==
    \A r \in Reqs :
        (reqPc[r] = "awaiting" /\ reqHandler[r][2] \in NeverSettles) =>
            ENABLED ReqStep(r)

\* C10: with auth enabled, a request whose Authorization header is not
\* 'Bearer ' followed by the secret is answered 401 and reaches neither the
\* route handler nor any action handler; a request with the right token,
\* and every request when auth is disabled, reaches the route handler and
\* is never answered 401.
C10_AuthGate ==
    \A r \in Reqs :
        reqPc[r] # "idle" =>
            IF authEnabled /\ reqHdr[r] # BearerPrefix \o Secret
            THEN /\ reqPc[r] = "done"
                 /\ Len(responses[r]) = 1
                 /\ responses[r][1].status = 401
                 /\ ~Dispatched(r)
                 /\ invoked[r] = <<>>
            ELSE /\ Dispatched(r)
                 /\ \A i \in 1..Len(responses[r]) : responses[r][i].status # 401

C10_Witness ==
    /\ authEnabled
    /\ reqPc[1] = "done" /\ reqHdr[1] = BearerPrefix \o <<"x">>
    /\ responses[1][1].status = 401
    /\ reqHdr[2] = BearerPrefix \o Secret /\ invoked[2] # <<>>

\* Requests whose body has any action value, a string or not
HttpRawNext ==
    \/ InitAgent
    \/ \E r \in Reqs, hdr \in Headers, name \in ActionNames \cup NonStrings :
            PostAction(r, hdr, name)
    \/ \E r \in Reqs, o \in HandlerOutcomes : HandlerSettles(r, o)
    \/ \E r \in Reqs : Reply(r)

\* C19: a request that passed the policy checks and whose action name is
\* missing or is not a string is answered 400 (BAD_INPUT) and never reaches
\* the dispatcher: executeAction produces no result for it and no handler
\* is called
C19_NameMustBeString ==
    \A r \in Reqs :
        (reqPc[r] # "idle" /\ reqAction[r] \in NonStrings
            /\ Admit(reqHdr[r]) = CallNext) =>
            /\ ~Dispatched(r)
            /\ invoked[r] = <<>>
            /\ \A i \in DOMAIN responses[r] : responses[r][i].status = 400
            /\ reqPc[r] = "done" => Len(responses[r]) = 1

\* The extensions whose own actions hold name
Defining(name) == {j \in 1..Len(Extensions) : name \in Extensions[j].actions}

\* C16: handlers under one name never shadow one another silently: a
\* handler that a dispatch resolved and called is the only one registered
\* under its name, so the outcome does not depend on the order of the
\* extensions
C16_NoSilentShadowing ==
    \A r \in Reqs : \A k \in DOMAIN invoked[r] :
        Defining(invoked[r][k][2]) \subseteq {invoked[r][k][1]}

\* C17: the status of a response follows from the kind of error: only a
\* successful result is answered with status 200, an unauthorized request
\* with 401, and a request for an action that is not registered with 404
C17_StatusFromErrorKind ==
    \A r \in Reqs : \A i \in DOMAIN responses[r] :
        LET resp == responses[r][i] IN
        /\ resp.status = 200 => resp.success
        /\ Admit(reqHdr[r]) # CallNext => resp.status = 401
        /\ (resp.t = "result" /\ reqResult[r] = NotFound(reqAction[r])) =>
                resp.status = 404

\* An agent whose tools extension has an action named like a method that
\* every object inherits
HttpOwnInit ==
    /\ agentInit = FALSE
    /\ agentPortal = FALSE
    /\ toolsToString = TRUE
    /\ sendThrows = FALSE
    /\ authEnabled = FALSE
    /\ HttpIdle
    /\ WsIdle
    /\ RateIdle
    /\ NoLife

\* The first extension, in list order, that has name among its own actions
FirstDefining(name) ==
    CHOOSE i \in Defining(name) : \A j \in Defining(name) : i <= j

\* C22: executeAction calls at most one handler for a request; a handler
\* that is called is the one of the first extension, in list order, that
\* defines the requested name; once the agent is initialised that handler
\* is called whenever some extension defines the name; and no further
\* handler is called when it fails
C22_FirstDefiningHandlerOnly ==
    \A r \in Reqs :
        LET key == ToPropertyKey(reqAction[r]) IN
        /\ Len(invoked[r]) <= 1
        /\ \A k \in DOMAIN invoked[r] :
                invoked[r][k] = <<FirstDefining(key), key>>
        /\ ((reqPc[r] = "awaiting"
                \/ (reqResult[r].set /\ reqResult[r] # NotInitialized))
             /\ Defining(key) # {}) =>
                invoked[r] = << <<FirstDefining(key), key>> >>

\* ------------------------------------------------------------------------
\* The streaming transport
\* ------------------------------------------------------------------------
\* this.connections.set(id, ws)
Register(reg, id, ws) == [reg EXCEPT ![id] = ws]

\* this.connections.clear() in place of delete(id)
UnregisterAll(reg, id) == [i \in DOMAIN reg |-> 0]

\* this.connections.delete(id)
Unregister(reg, id) == [reg EXCEPT ![id] = 0]

\* Map.prototype.delete returns whether the key was present
DeleteReturns(reg, id) == IF reg[id] # 0 THEN "true" ELSE "false"

\* What ws.send does on socket c: it writes to an open socket; on a socket
\* that is closing or closed it throws or drops the data, by the ws build
SendEffect(c) ==
    IF connState[c] = "open" THEN "written"
    ELSE IF sendThrows THEN "threw"
    ELSE "dropped"

\* One ws.send call: the socket it is made on, the socket whose frame it
\* answers (0: none), the message's type (None: the message is an object
\* with an error field and no type field), its data or error text, and what
\* the call did
SendCall(to, from, kind, data) ==
    [to |-> to, from |-> from, kind |-> kind, data |-> data,
     effect |-> SendEffect(to)]

\* The handling of a frame of type typ from socket c ends while the frames
\* in the slots before slot f are suspended
Handled(c, typ, f) ==
    [conn |-> c, typ |-> typ,
     ahead |-> Cardinality({g \in 1..(f - 1) :
                                frPc[g] = "waiting" /\ frConn[g] = c})]

\* The slots once the frame in slot f is gone: the later frames move up
Shift(slots, f, empty) ==
    [g \in Frames |-> IF g < f THEN slots[g]
                      ELSE IF g < MaxFrames THEN slots[g + 1]
                      ELSE empty]

\* A slot for a frame that is suspended on generateChat
FreeSlot == CHOOSE f \in Frames :
                /\ frPc[f] = "free"
                /\ \A g \in 1..(f - 1) : frPc[g] # "free"

\* The ids generateConnectionId has returned so far
Issued == {connId[c] : c \in {d \in Conns : connState[d] # "new"}}

\* generateConnectionId: a random string, which may or may not have been
\* returned before. Ids are opaque, so they are named in the order of their
\* first issue: a new one is the least number not issued yet.
GenerateConnectionId(id) ==
    \/ id \in Issued
    \/ /\ id \notin Issued
       /\ \A j \in 1..(id - 1) : j \in Issued

\* wss.on('connection') for an upgrade request with Authorization header
\* hdr. The WebSocketServer takes the http server's 'upgrade' event, which
\* express and its middleware never see, and the listener does not read req.
\* Sockets are numbered in their order of connection.
Connect(c, id, hdr) ==
    /\ connState[c] = "new"
    /\ \A d \in 1..(c - 1) : connState[d] # "new"
    /\ GenerateConnectionId(id)
    /\ connId' = [connId EXCEPT ![c] = id]
    /\ connHdr' = [connHdr EXCEPT ![c] = hdr]
    /\ connections' = Register(connections, id, c)
    /\ connState' = [connState EXCEPT ![c] = "open"]
    /\ sent' = << [to |-> c, from |-> 0, kind |-> "welcome", data |-> None,
                  effect |-> "written"] >>
    /\ handled' = NoFrame
    /\ deleted' = "none"
    /\ UNCHANGED <<agentVars, reqVars, rateVars, lifeVars, frPc, frConn, frWs,
                   sendThrows, faults>>

\* processChatMessage when it returns without calling the portal
ChatWithoutPortal ==
    IF ~agentInit THEN "Agent not initialized"
    ELSE "No portal configured for agent"

\* handleWebSocketMessage up to its first suspension, for a frame of type
\* typ that arrived on socket c, whose listener closed over connection id
HandleWebSocketMessage(c, id, typ) ==
    LET ws == connections[id] IN
    IF ws = 0
    THEN /\ sent' = <<>>
         /\ handled' = Handled(c, typ, MaxFrames + 1)
         /\ UNCHANGED <<frPc, frConn, frWs>>
    ELSE IF typ = "ping"
    THEN /\ sent' = << SendCall(ws, c, "pong", None) >>
         /\ handled' = Handled(c, typ, MaxFrames + 1)
         /\ UNCHANGED <<frPc, frConn, frWs>>
    ELSE IF typ = "chat"
    THEN IF agentInit /\ agentPortal
         THEN /\ \E f \in Frames : frPc[f] = "free"
              /\ frPc' = [frPc EXCEPT ![FreeSlot] = "waiting"]
              /\ frConn' = [frConn EXCEPT ![FreeSlot] = c]
              /\ frWs' = [frWs EXCEPT ![FreeSlot] = ws]
              /\ sent' = <<>>
              /\ handled' = NoFrame
         ELSE /\ sent' = << SendCall(ws, c, "chat_response",
                                    ChatWithoutPortal) >>
              /\ handled' = Handled(c, typ, MaxFrames + 1)
              /\ UNCHANGED <<frPc, frConn, frWs>>
    ELSE /\ sent' = << SendCall(ws, c, None, "Unknown message type") >>
         /\ handled' = Handled(c, typ, MaxFrames + 1)
         /\ UNCHANGED <<frPc, frConn, frWs>>

\* ws.on('message') on socket c
MessageEvent(c, typ) ==
    /\ connState[c] = "open"
    /\ IF typ = "garbage"
       THEN /\ sent' = << SendCall(c, c, None, "Invalid message format") >>
            /\ handled' = Handled(c, typ, MaxFrames + 1)
            /\ UNCHANGED <<frPc, frConn, frWs>>
       ELSE HandleWebSocketMessage(c, connId[c], typ)
    /\ deleted' = "none"
    /\ UNCHANGED <<agentVars, reqVars, rateVars, lifeVars, connState, connId, connHdr,
                   connections, sendThrows, faults>>

\* processChatMessage once generateChat has settled
ChatResponse(o) ==
    IF o = "resolve" THEN "content" ELSE "Failed to process chat"

\* generateChat settles for the frame in slot f: handleWebSocketMessage
\* resumes and sends on the socket it looked up before the await; a throwing
\* send runs the catch blocks of handleWebSocketMessage and of the listener
ChatSettles(f, o) ==
    /\ frPc[f] = "waiting"
    /\ LET ws == frWs[f]
           c == frConn[f]
           reply == SendCall(ws, c, "chat_response", ChatResponse(o))
           inner == SendCall(ws, c, None, "Failed to process message")
           outer == SendCall(c, c, None, "Invalid message format")
       IN IF reply.effect # "threw"
          THEN /\ sent' = <<reply>>
               /\ UNCHANGED faults
          ELSE /\ sent' = <<reply, inner, outer>>
               /\ faults' = IF outer.effect = "threw" THEN 1 ELSE faults
    /\ frPc' = Shift(frPc, f, "free")
    /\ frConn' = Shift(frConn, f, 0)
    /\ frWs' = Shift(frWs, f, 0)
    /\ handled' = Handled(frConn[f], "chat", f)
    /\ deleted' = "none"
    /\ UNCHANGED <<agentVars, reqVars, rateVars, lifeVars, connState, connId, connHdr,
                   connections,
                   sendThrows>>

\* ws.on('error')
ErrorEvent(c) ==
    /\ connState[c] = "open"
    /\ connState' = [connState EXCEPT ![c] = "closing"]
    /\ connections' = Unregister(connections, connId[c])
    /\ deleted' = DeleteReturns(connections, connId[c])
    /\ sent' = <<>>
    /\ handled' = NoFrame
    /\ UNCHANGED <<agentVars, reqVars, rateVars, lifeVars, connId, connHdr,
                   frPc, frConn, frWs,
                   sendThrows, faults>>

\* ws.on('close')
CloseEvent(c) ==
    /\ connState[c] \in {"open", "closing"}
    /\ connState' = [connState EXCEPT ![c] = "closed"]
    /\ connections' = Unregister(connections, connId[c])
    /\ deleted' = DeleteReturns(connections, connId[c])
    /\ sent' = <<>>
    /\ handled' = NoFrame
    /\ UNCHANGED <<agentVars, reqVars, rateVars, lifeVars, connId, connHdr,
                   frPc, frConn, frWs,
                   sendThrows, faults>>

WsNext ==
    \/ InitAgent
    \/ \E c \in Conns, id \in Ids : Connect(c, id, NoHeader)
    \/ \E c \in Conns, typ \in FrameTypes : MessageEvent(c, typ)
    \/ \E f \in Frames, o \in ChatOutcomes : ChatSettles(f, o)
    \/ \E c \in Conns : ErrorEvent(c)
    \/ \E c \in Conns : CloseEvent(c)

vars == <<httpVars, wsVars, rateVars, lifeVars>>

\* ------------------------------------------------------------------------
\* Properties of the streaming transport
\* ------------------------------------------------------------------------
\* C5: no ws.send call is made on a socket after its close or error event
\* removed its id from the registry, and no rejection goes unhandled
C5_NoSendAfterRemoval ==
    /\ \A i \in DOMAIN sent : sent[i].effect = "written"
    /\ faults = 0

\* C6: a message that answers a frame is sent on the socket the frame
\* arrived on
C6_NoCrossDelivery ==
    \A i \in DOMAIN sent : sent[i].from # 0 => sent[i].to = sent[i].from

\* C7: two sockets never get the same connection id, whether the earlier
\* one is still registered or not
C7_FreshIds ==
    \A c, d \in Conns :
        (c # d /\ connState[c] # "new" /\ connState[d] # "new") =>
            connId[c] # connId[d]

\* C8: the registry holds exactly the sockets that are connected and have
\* had neither a close nor an error event
C8_RegistryIsOpenSet ==
    \A c \in Conns :
        connState[c] = "open" <=> (\E id \in Ids : connections[id] = c)

\* C9: removing an id is idempotent. In every reachable registry, removing
\* an id a second time or removing an absent id changes nothing, and a
\* removal leaves the entries under all other ids alone; and a close event
\* that follows an error event on the same socket changes the registry only
\* under that socket's id, not at all when the id is absent, and raises
\* nothing.
C9_UnregisterIdempotent ==
    /\ [](\A id \in Ids :
            /\ Unregister(Unregister(connections, id), id)
                    = Unregister(connections, id)
            /\ connections[id] = 0 => Unregister(connections, id) = connections
            /\ \A j \in Ids \ {id} :
                    Unregister(connections, id)[j] = connections[j])
    /\ [][\A c \in Conns :
            (connState[c] = "closing" /\ connState'[c] = "closed") =>
                /\ connections[connId[c]] = 0 => connections' = connections
                /\ \A j \in Ids \ {connId[c]} : connections'[j] = connections[j]
                /\ connections'[connId[c]] = 0
                /\ faults' = faults]_vars

\* The close event of a socket whose error event had already removed its
\* id, while another socket with another id stays registered
C9_Witness ==
    /\ deleted = "false"
    /\ \E c, d \in Conns :
            /\ connState[c] = "closed"
            /\ connState[d] = "open"
            /\ connId[c] # connId[d]
            /\ connections[connId[c]] = 0
            /\ connections[connId[d]] = d

\* The ws.send calls of the step just taken that wrote on socket c
Written(c) ==
    {i \in DOMAIN sent : sent[i].to = c /\ sent[i].effect = "written"}

\* C13: when the handling of a frame ends and the socket it arrived on is
\* still open, exactly one reply has been written on that socket for it,
\* whatever the frame was and however the chat backend settled
C13_ExactlyOneReply ==
    (handled.conn # 0 /\ connState[handled.conn] = "open") =>
        Cardinality(Written(handled.conn)) = 1

\* Frame types handleWebSocketMessage has no case for
Unrecognised == FrameTypes \ {"ping", "chat", "garbage"}

\* Socket c is the one the registry holds under c's id
InRegistry(c) == connId[c] # 0 /\ connections[connId[c]] = c

\* C14: an unparseable frame, or a frame of a type that is not recognised,
\* never closes or unregisters its connection: the step that handles it
\* leaves the registry, every socket's state and the suspended frames as
\* they were; afterwards the socket is open and in the registry, one error
\* reply (an object with an error field) has been written on it, and a
\* ping that comes next is answered with a pong on it
C14_MalformedKeepsConnection ==
    /\ [](\A c \in Conns :
            (handled.conn = c /\ handled.typ \in Unrecognised \cup {"garbage"}) =>
                /\ connState[c] = "open"
                /\ InRegistry(c)
                /\ Len(sent) = 1
                /\ sent[1].to = c /\ sent[1].from = c
                /\ sent[1].kind = None
                /\ sent[1].effect = "written"
                /\ ENABLED (/\ MessageEvent(c, "ping")
                            /\ Len(sent') = 1
                            /\ sent'[1].to = c
                            /\ sent'[1].kind = "pong"
                            /\ sent'[1].effect = "written"))
    /\ [][handled'.typ \in Unrecognised \cup {"garbage"} =>
            /\ connections' = connections
            /\ connState' = connState
            /\ connId' = connId
            /\ <<frPc, frConn, frWs>>' = <<frPc, frConn, frWs>>]_vars

\* C18: the type of a reply follows from the frame it answers: a ping is
\* answered with type pong, a command with type command_response, and a
\* frame that is not recognised with type error and the error kind BAD_INPUT
C18_ReplyDiscriminator ==
    \A i \in DOMAIN sent :
        (sent[i].from # 0 /\ sent[i].from = handled.conn) =>
            /\ handled.typ = "ping" => sent[i].kind = "pong"
            /\ handled.typ = "command" => sent[i].kind = "command_response"
            /\ handled.typ \in {"other", "garbage"} =>
                    sent[i].kind = "error" /\ sent[i].data = "BAD_INPUT"

\* C20: chat frames of one connection are answered in their order of
\* arrival: when the reply to a chat frame is sent, no chat frame that
\* arrived on the same socket before it is still waiting for its reply
C20_RepliesInArrivalOrder ==
    handled.typ = "chat" => handled.ahead = 0

\* ------------------------------------------------------------------------
\* The streaming transport with the runtime's periodic tick
\* ------------------------------------------------------------------------
\* tick(agent): its body is a comment
Tick ==
    /\ sent' = <<>>
    /\ handled' = NoFrame
    /\ deleted' = "none"
    /\ UNCHANGED <<agentVars, reqVars, rateVars, lifeVars, connState, connId, connHdr,
                   connections, frPc, frConn, frWs, sendThrows, faults>>

WsTickNext ==
    \/ WsNext
    \/ Tick

\* Socket c is registered and no frame of it is being handled
Idle(c) ==
    /\ InRegistry(c)
    /\ handled.conn # c
    /\ \A f \in Frames : frConn[f] # c

\* C15: a connection that is abandoned, registered with no frame, close or
\* error event from some point on, is eventually removed from the registry
\* by the periodic tick
C15_IdleSweep ==
    \A c \in Conns : []([]Idle(c) => <>(~InRegistry(c)))

\* ------------------------------------------------------------------------
\* The streaming transport with authentication configured
\* ------------------------------------------------------------------------
\* setupMiddleware has installed authMiddleware on the express app
WsAuthInit ==
    /\ agentInit = FALSE
    /\ agentPortal \in BOOLEAN
    /\ toolsToString = FALSE
    /\ sendThrows = FALSE
    /\ authEnabled = TRUE
    /\ HttpIdle
    /\ WsIdle
    /\ RateIdle
    /\ NoLife

\* Clients open channels with any Authorization header
WsAuthNext ==
    \/ InitAgent
    \/ \E c \in Conns, id \in Ids, hdr \in Headers : Connect(c, id, hdr)
    \/ \E c \in Conns, typ \in FrameTypes : MessageEvent(c, typ)
    \/ \E f \in Frames, o \in ChatOutcomes : ChatSettles(f, o)
    \/ \E c \in Conns : ErrorEvent(c)
    \/ \E c \in Conns : CloseEvent(c)

\* C11: with authentication enabled, a client whose upgrade request carries
\* no valid token is never registered and none of its frames is processed
C11_StreamAuthEnforced ==
    \A c \in Conns :
        (connState[c] # "new" /\ Admit(connHdr[c]) # CallNext) =>
            /\ \A id \in Ids : connections[id] # c
            /\ \A i \in DOMAIN sent : sent[i].from # c
            /\ \A f \in Frames : frConn[f] # c

\* ------------------------------------------------------------------------
\* The server lifecycle
\* ------------------------------------------------------------------------
LifeInit ==
    /\ agentInit = FALSE
    /\ agentPortal = FALSE
    /\ toolsToString = FALSE
    /\ sendThrows = FALSE
    /\ authEnabled = FALSE
    /\ wssTerminates \in BOOLEAN
    /\ LifeIdle
    /\ HttpIdle
    /\ WsIdle
    /\ RateIdle

\* A step that sends nothing and handles no frame
Quiet ==
    /\ sent' = <<>>
    /\ handled' = NoFrame
    /\ deleted' = "none"
    /\ UNCHANGED <<connId, connHdr, connections, frPc, frConn, frWs,
                   sendThrows, faults, httpVars, rateVars, wssTerminates>>

\* start(): the http server and the WebSocketServer on it are created and
\* listen() is called. A new start() is taken only when no server is
\* listening or closing.
Start ==
    /\ server \in {"none", "failed", "closed"}
    /\ ~stopPending
    /\ server' = "created"
    /\ Quiet
    /\ UNCHANGED <<extStatus, stopPending, connState>>

\* The listen callback
Listening ==
    /\ server = "created"
    /\ server' = "listening"
    /\ extStatus' = "ENABLED"
    /\ Quiet
    /\ UNCHANGED <<stopPending, connState>>

\* The server's 'error' event: listen failed
ServerError ==
    /\ server = "created"
    /\ server' = "failed"
    /\ extStatus' = "ERROR"
    /\ Quiet
    /\ UNCHANGED <<stopPending, connState>>

\* What wss.close() does to the sockets: nothing, or terminate the open ones
WssClose ==
    IF wssTerminates
    THEN [c \in Conns |-> IF connState[c] = "open" THEN "closing"
                          ELSE connState[c]]
    ELSE connState

\* stop(), called once the outcome of listen() is known: without a server
\* it resolves at once; otherwise it calls wss.close() and server.close(cb)
\* and resolves when cb runs
Stop ==
    /\ server # "created"
    /\ IF server = "none"
       THEN UNCHANGED <<server, stopPending, connState>>
       ELSE /\ stopPending' = TRUE
            /\ server' = IF server = "listening" THEN "closing" ELSE server
            /\ connState' = WssClose
    /\ Quiet
    /\ UNCHANGED extStatus

\* The callback of server.close: the 'close' event of the http server,
\* emitted once it accepts nothing more and none of its connections is left
ServerClosed ==
    /\ stopPending
    /\ server \in {"closing", "failed", "closed"}
    /\ \A c \in Conns : connState[c] \notin {"open", "closing"}
    /\ server' = "closed"
    /\ extStatus' = "DISABLED"
    /\ stopPending' = FALSE
    /\ Quiet
    /\ UNCHANGED connState

\* The 'close' event of a socket that was terminated
TerminatedCloses == \E c \in Conns : connState[c] = "closing" /\ CloseEvent(c)

LifeNext ==
    \/ Start
    \/ Listening
    \/ ServerError
    \/ Stop
    \/ ServerClosed
    \/ \E c \in Conns, id \in Ids :
            server = "listening" /\ Connect(c, id, NoHeader)
    \/ \E c \in Conns : CloseEvent(c)

\* C24: the status follows the server lifecycle: it is DISABLED at first,
\* it becomes ENABLED only in the step in which the server starts to
\* listen, it becomes ERROR only in the step of a server error event, and
\* every stop() call eventually resolves, at a moment when the status is
\* DISABLED and the connection registry is empty
C24_StatusFollowsLifecycle ==
    /\ extStatus = "DISABLED"
    /\ [][(extStatus' = "ENABLED" /\ extStatus # "ENABLED") =>
            (server = "created" /\ server' = "listening")]_vars
    /\ [][(extStatus' = "ERROR" /\ extStatus # "ERROR") =>
            (server = "created" /\ server' = "failed")]_vars
    /\ [](stopPending =>
            <>(/\ ~stopPending
               /\ extStatus = "DISABLED"
               /\ \A id \in Ids : connections[id] = 0))

\* ------------------------------------------------------------------------
\* Rate limiting
\* ------------------------------------------------------------------------
\* rateLimit({ windowMs, max }) with max taken from rateLimit.windowMs
LimiterMaxIsWindow == [windowMs |-> RateWindow, max |-> RateWindow]

\* The options setupMiddleware passes to rateLimit()
Limiter == [windowMs |-> RateWindow, max |-> RateMax]

\* The limiter's store counting one more hit of client key k: a client with
\* no window, or whose window has ended, gets a fresh window
Increment(k) ==
    IF rlReset[k] <= now
    THEN [hits |-> 1, reset |-> now + Limiter.windowMs]
    ELSE [hits |-> rlCount[k] + 1, reset |-> rlReset[k]]

RateInit ==
    /\ agentInit = FALSE
    /\ agentPortal = FALSE
    /\ toolsToString = FALSE
    /\ sendThrows = FALSE
    /\ authEnabled = FALSE
    /\ HttpIdle
    /\ WsIdle
    /\ RateIdle
    /\ NoLife

\* Time passes
Advance ==
    /\ now < MaxTime
    /\ now' = now + 1
    /\ rlVerdict' = NoVerdict
    /\ UNCHANGED <<rlCount, rlReset, httpVars, wsVars, lifeVars>>

\* The limiter middleware for a request of client key k: it counts the hit,
\* then answers 429 when the hits exceed max, and calls next() otherwise
RateLimitMiddleware(k) ==
    /\ rlReset[k] > now => rlCount[k] < MaxHits
    /\ rlCount' = [rlCount EXCEPT ![k] = Increment(k).hits]
    /\ rlReset' = [rlReset EXCEPT ![k] = Increment(k).reset]
    /\ rlVerdict' =
            [key |-> k,
             answer |-> IF Increment(k).hits > Limiter.max
                        THEN Answer(429, "Too many requests, please try again later.")
                        ELSE CallNext,
             before |-> rlCount[k]]
    /\ UNCHANGED <<now, httpVars, wsVars, lifeVars>>

RateNext ==
    \/ Advance
    \/ \E k \in Keys : RateLimitMiddleware(k)

\* C12: rate limiting is a fixed window per client key. A count is never
\* negative; a call is admitted exactly when its client's count, the call
\* included, is at most maxRequests; a call in a running window adds one to
\* the count and leaves the window alone, whether it is admitted or not; the
\* first call after the window has ended is admitted and starts a fresh
\* window with count 1; and no call touches another client's window
C12_FixedWindow ==
    /\ [](/\ \A k \in Keys : rlCount[k] >= 0
          /\ rlVerdict.key # 0 =>
                (rlVerdict.answer = CallNext
                    <=> rlCount[rlVerdict.key] <= RateMax)
          /\ rlVerdict.answer # CallNext => rlVerdict.answer.status = 429)
    /\ [][\A k \in Keys : RateLimitMiddleware(k) =>
            /\ IF rlReset[k] <= now
               THEN /\ rlCount'[k] = 1
                    /\ rlReset'[k] = now + RateWindow
                    /\ rlVerdict'.answer = CallNext
               ELSE /\ rlCount'[k] = rlCount[k] + 1
                    /\ rlReset'[k] = rlReset[k]
            /\ \A j \in Keys \ {k} :
                    rlCount'[j] = rlCount[j] /\ rlReset'[j] = rlReset[j]]_vars

\* A call admitted with count 1 in a fresh window, by a client whose window
\* before had calls rejected
C12_Witness ==
    /\ rlVerdict.key # 0
    /\ rlVerdict.answer = CallNext
    /\ rlCount[rlVerdict.key] = 1
    /\ rlVerdict.before > RateMax

\* ------------------------------------------------------------------------
\* The chat and memory routes
\* ------------------------------------------------------------------------
\* A call of a collaborator that is no extension's handler
Call(name) == <<0, name>>

\* A response body of the chat and memory routes
RouteBody(route, success, result, error) ==
    [status |-> 200, t |-> route, success |-> success, result |-> result,
     error |-> error]

\* processChatMessage with no guard in front of the portal
CallsPortalUnguarded == TRUE

\* processChatMessage gets as far as portal.generateChat
CallsPortal == agentInit /\ agentPortal

\* A request that arrives at a route other than /action and passes the
\* middleware chain, or is answered by it
Arrives(r, hdr) ==
    /\ reqPc[r] = "idle"
    /\ \A q \in 1..(r - 1) : reqPc[q] # "idle"
    /\ reqHdr' = [reqHdr EXCEPT ![r] = hdr]
    /\ UNCHANGED <<agentVars, authEnabled, reqAction, reqOutcome, reqResult,
                   reqStart, reqElapsed, wsVars, rateVars, lifeVars>>

\* The route handler of request r writes body and ends
Responds(r, body) ==
    /\ responses' = [responses EXCEPT ![r] = Append(@, body)]
    /\ reqPc' = [reqPc EXCEPT ![r] = "done"]

\* The route handler of request r calls a collaborator and awaits it
Awaits(r, name, pc) ==
    /\ invoked' = [invoked EXCEPT ![r] = Append(@, Call(name))]
    /\ reqHandler' = [reqHandler EXCEPT ![r] = Call(name)]
    /\ reqPc' = [reqPc EXCEPT ![r] = pc]
    /\ UNCHANGED responses

\* POST /chat, up to the first suspension of processChatMessage; hasMessage
\* says whether the body has a message that is truthy
PostChat(r, hdr, hasMessage) ==
    /\ Arrives(r, hdr)
    /\ IF Admit(hdr) # CallNext
       THEN /\ Responds(r, ErrorBody(Admit(hdr).status, Admit(hdr).error[1]))
            /\ UNCHANGED <<reqHandler, invoked>>
       ELSE IF ~hasMessage
       THEN /\ Responds(r, ErrorBody(400, "Message is required"))
            /\ UNCHANGED <<reqHandler, invoked>>
       ELSE IF CallsPortal
       THEN Awaits(r, "portal.generateChat", "awaiting chat")
       ELSE /\ Responds(r, RouteBody("chat", TRUE, ChatWithoutPortal, NoError))
            /\ UNCHANGED <<reqHandler, invoked>>

\* GET /memory, up to the first suspension of getMemories
GetMemory(r, hdr) ==
    /\ Arrives(r, hdr)
    /\ IF Admit(hdr) # CallNext
       THEN /\ Responds(r, ErrorBody(Admit(hdr).status, Admit(hdr).error[1]))
            /\ UNCHANGED <<reqHandler, invoked>>
       ELSE IF ~agentInit
       THEN /\ Responds(r, RouteBody("memories", TRUE, "[]", NoError))
            /\ UNCHANGED <<reqHandler, invoked>>
       ELSE Awaits(r, "memory.retrieve", "awaiting retrieve")

\* POST /memory, up to the first suspension of storeMemory
PostMemory(r, hdr) ==
    /\ Arrives(r, hdr)
    /\ IF Admit(hdr) # CallNext
       THEN /\ Responds(r, ErrorBody(Admit(hdr).status, Admit(hdr).error[1]))
            /\ UNCHANGED <<reqHandler, invoked>>
       ELSE IF ~agentInit
       THEN /\ Responds(r, RouteBody("memory", FALSE, None,
                                     Msg("Agent not initialized")))
            /\ UNCHANGED <<reqHandler, invoked>>
       ELSE Awaits(r, "memory.store", "awaiting store")

\* The awaited collaborator of a chat or memory request settles, resolving
\* or rejecting, and the route handler writes the response
RouteSettles(r, o) ==
    /\ reqPc[r] \in {"awaiting chat", "awaiting retrieve", "awaiting store"}
    /\ Responds(r,
          IF reqPc[r] = "awaiting chat"
          THEN RouteBody("chat", TRUE, ChatResponse(o), NoError)
          ELSE IF reqPc[r] = "awaiting retrieve"
          THEN RouteBody("memories", TRUE,
                         IF o = "resolve" THEN "[recent]" ELSE "[]", NoError)
          ELSE IF o = "resolve"
          THEN RouteBody("memory", TRUE, None, NoError)
          ELSE RouteBody("memory", FALSE, None, Msg("boom")))
    /\ reqHandler' = [reqHandler EXCEPT ![r] = NoHandler]
    /\ UNCHANGED <<agentVars, authEnabled, reqHdr, reqAction, reqOutcome,
                   reqResult, reqStart, reqElapsed, invoked, wsVars, rateVars, lifeVars>>

RoutesInit ==
    /\ agentInit = FALSE
    /\ agentPortal \in BOOLEAN
    /\ toolsToString = FALSE
    /\ sendThrows = FALSE
    /\ authEnabled = FALSE
    /\ HttpIdle
    /\ WsIdle
    /\ RateIdle
    /\ NoLife

RoutesNext ==
    \/ InitAgent
    \/ \E r \in Reqs, name \in ActionNames : PostAction(r, NoHeader, name)
    \/ \E r \in Reqs, o \in HandlerOutcomes : HandlerSettles(r, o)
    \/ \E r \in Reqs : Reply(r)
    \/ \E r \in Reqs, m \in BOOLEAN : PostChat(r, NoHeader, m)
    \/ \E r \in Reqs : GetMemory(r, NoHeader)
    \/ \E r \in Reqs : PostMemory(r, NoHeader)
    \/ \E r \in Reqs, o \in ChatOutcomes : RouteSettles(r, o)

\* C23: until init(agent) has run no collaborator is called: no handler,
\* portal or memory call has been made and none is awaited; an action
\* request got 'Agent not initialized' with success false and
\* executionTime 0, a chat request the 'Agent not initialized' response, a
\* memory store success false, and a memory read the empty list. And for
\* an agent without a portal, before or after init, no request ever calls
\* portal.generateChat
C23_NothingBeforeInit ==
    /\ ~agentInit =>
          \A r \in Reqs :
            /\ invoked[r] = <<>>
            /\ reqPc[r] \in {"idle", "reply", "done"}
            /\ reqResult[r].set =>
                    reqResult[r] = NotInitialized /\ reqElapsed[r] = 0
            /\ \A i \in DOMAIN responses[r] :
                  LET body == responses[r][i] IN
                  /\ body.t = "result" => body = ResultBody(200, NotInitialized)
                  /\ body.t = "chat" => body.result = "Agent not initialized"
                  /\ body.t = "memory" =>
                        ~body.success /\ body.error = Msg("Agent not initialized")
                  /\ body.t = "memories" => body.result = "[]"
    /\ ~agentPortal =>
          \A r \in Reqs :
            /\ \A k \in DOMAIN invoked[r] :
                    invoked[r][k] # Call("portal.generateChat")
            /\ \A i \in DOMAIN responses[r] :
                    responses[r][i].t = "chat" =>
                        responses[r][i].result \in
                            {"Agent not initialized",
                             "No portal configured for agent"}

\* Before init(agent), a chat request and a memory store have both been
\* answered
C23_Witness ==
    /\ ~agentInit
    /\ responses[1] = << RouteBody("chat", TRUE, "Agent not initialized",
                                   NoError) >>
    /\ responses[2] = << RouteBody("memory", FALSE, None,
                                   Msg("Agent not initialized")) >>

\* ------------------------------------------------------------------------
\* The request transport with a running clock
\* ------------------------------------------------------------------------
HttpClockInit ==
    /\ agentInit = FALSE
    /\ agentPortal = FALSE
    /\ toolsToString = FALSE
    /\ sendThrows = FALSE
    /\ authEnabled = FALSE
    /\ HttpIdle
    /\ WsIdle
    /\ RateIdle
    /\ NoLife

\* Requests arrive, handlers settle and replies are written while time
\* passes
HttpClockNext ==
    \/ InitAgent
    \/ \E r \in Reqs, name \in ActionNames : PostAction(r, NoHeader, name)
    \/ \E r \in Reqs, o \in HandlerOutcomes : HandlerSettles(r, o)
    \/ \E r \in Reqs : Reply(r)
    \/ Advance

\* C21: when the handler that was called returns a successful result, the
\* ActionResponse reports success, carries exactly the result the handler
\* returned and no error other than the handler's, and its executionTime
\* is the time that passed since the dispatch began, which is not negative;
\* no ActionResponse has a negative executionTime
C21_SuccessCarriesPayload ==
    \A r \in Reqs :
        /\ reqElapsed[r] >= 0
        /\ (reqOutcome[r].t = "return" /\ reqOutcome[r].success) =>
                /\ reqResult[r].set
                /\ reqResult[r].success
                /\ reqResult[r].result = reqOutcome[r].result
                /\ reqResult[r].error = reqOutcome[r].error
                /\ reqElapsed[r] <= now

\* The echo handler returned "hi" some time after it was called, and the
\* response with that result has been written
C21_Witness ==
    \E r \in Reqs :
        /\ reqPc[r] = "done"
        /\ invoked[r] = << <<2, "echo">> >>
        /\ reqOutcome[r].success /\ reqOutcome[r].result = "hi"
        /\ reqResult[r].result = "hi"
        /\ reqElapsed[r] > 0
        /\ responses[r] = << ResultBody(200, reqResult[r]) >>

\* The streaming transport: connections, frames and the registry
SpecWs == WsInit /\ [][WsNext]_vars

\* The request transport: POST /action behind the middleware chain
SpecHttp == HttpInit /\ [][HttpNext]_vars

\* The request transport of an agent with an action named toString
SpecHttpOwn == HttpOwnInit /\ [][HttpNext]_vars

\* The request transport with its chat and memory routes
SpecRoutes == RoutesInit /\ [][RoutesNext]_vars

\* The request transport with bodies of any shape
SpecHttpRaw == HttpInit /\ [][HttpRawNext]_vars

\* The request transport with the clock that executionTime is read from
SpecHttpClock == HttpClockInit /\ [][HttpClockNext]_vars

\* The streaming transport of a gateway whose auth.enabled is set
SpecWsAuth == WsAuthInit /\ [][WsAuthNext]_vars

\* The streaming transport under a runtime that keeps calling tick
SpecWsTick == WsInit /\ [][WsTickNext]_vars /\ WF_vars(Tick)

\* start() and stop() with streaming clients; the callbacks of listen() and
\* close() run when they are due, and so does the close event of a socket
\* that was terminated
SpecLife ==
    /\ LifeInit
    /\ [][LifeNext]_vars
    /\ WF_vars(Listening \/ ServerError)
    /\ WF_vars(ServerClosed)
    /\ WF_vars(TerminatedCloses)

\* The rate limiter in front of the routes
SpecRate == RateInit /\ [][RateNext]_vars

====
